---- MODULE Spec2Model ----
(***************************************************************************)
(* PI_metoda_calkowania.cpp: the trapezoid estimate of PI by integrating   *)
(* f(x) = 4 / (1 + x^2) over [0,1], the index range split over threads.    *)
(*                                                                         *)
(* The C++ type double is modelled as IEEE-754 binary64 with               *)
(* round-to-nearest-even: a value is 0 or m * 2^e with 2^52 <= m < 2^53.   *)
(* The 53-bit significand does not fit TLC's 32-bit integers, so naturals  *)
(* of any size are kept as little-endian sequences of 14-bit limbs.        *)
(***************************************************************************)
EXTENDS Integers, Sequences, FiniteSets, TLC

----------------------------------------------------------------------------
(* Naturals of unbounded size: <<l1, ..., ln>> is l1 + l2*B + ... with     *)
(* B = LimbBase = 2^LimbBits, ln /= 0; zero is << >>.  Carries are found   *)
(* by look-ahead, not by a loop over the limbs.                            *)

LimbBits == 14

LimbBase == 16384

Max(S) == CHOOSE x \in S : \A y \in S : y <= x

Limb(a, k) == IF 1 <= k /\ k <= Len(a) THEN a[k] ELSE 0

\* a without its high zero limbs
BigNorm(a) == SubSeq(a, 1, Max({0} \cup {k \in 1 .. Len(a) : a[k] # 0}))

\* an int (below 2^31) as a natural
BigFromInt(n) ==
    BigNorm(<<n % LimbBase, (n \div LimbBase) % LimbBase,
              n \div (LimbBase * LimbBase)>>)

\* a natural below 2^31 as an int
BigToInt(a) == Limb(a, 1) + Limb(a, 2) * LimbBase + Limb(a, 3) * LimbBase * LimbBase

BigAdd(a, b) ==
    IF a = << >> THEN b
    ELSE IF b = << >> THEN a
    ELSE
    LET n == 1 + (IF Len(a) > Len(b) THEN Len(a) ELSE Len(b))
        s(k) == Limb(a, k) + Limb(b, k)
        carry(k) == IF \E j \in 1 .. k - 1 :
                          /\ s(j) >= LimbBase
                          /\ \A l \in j + 1 .. k - 1 : s(l) = LimbBase - 1
                    THEN 1 ELSE 0
    IN  BigNorm(SubSeq([k \in 1 .. n |-> (s(k) + carry(k)) % LimbBase], 1, n))

\* a - b for a >= b
BigSub(a, b) ==
    IF b = << >> THEN a
    ELSE
    LET n == Len(a)
        d(k) == Limb(a, k) - Limb(b, k)
        borrow(k) == IF \E j \in 1 .. k - 1 :
                           /\ d(j) < 0
                           /\ \A l \in j + 1 .. k - 1 : d(l) = 0
                     THEN 1 ELSE 0
    IN  BigNorm(SubSeq([k \in 1 .. n |-> (d(k) - borrow(k) + LimbBase) % LimbBase],
                       1, n))

\* -1, 0, 1 as a < b, a = b, a > b
BigCmp(a, b) ==
    IF Len(a) < Len(b) THEN -1
    ELSE IF Len(a) > Len(b) THEN 1
    ELSE IF a = b THEN 0
    ELSE LET k == Max({j \in 1 .. Len(a) : a[j] # b[j]})
         IN  IF a[k] < b[k] THEN -1 ELSE 1

\* a * LimbBase^n
BigShlLimbs(a, n) ==
    IF a = << >> THEN << >> ELSE SubSeq([k \in 1 .. n |-> 0], 1, n) \o a

\* a * c for an int 0 <= c <= LimbBase: the low and the high halves of the
\* limb products, added
BigMulLimb(a, c) ==
    IF a = << >> \/ c = 0 THEN << >>
    ELSE
    LET n == Len(a)
    IN  BigAdd(BigNorm(SubSeq([k \in 1 .. n |-> (a[k] * c) % LimbBase], 1, n)),
               BigShlLimbs(BigNorm(SubSeq([k \in 1 .. n |-> (a[k] * c) \div LimbBase],
                                          1, n)), 1))

\* a * (b[j] + b[j+1] * B + ...) 
RECURSIVE BigMulRec(_, _, _)
BigMulRec(a, b, j) ==
    IF j > Len(b) THEN << >>
    ELSE BigAdd(BigMulLimb(a, b[j]), BigShlLimbs(BigMulRec(a, b, j + 1), 1))

BigMul(a, b) == BigMulRec(a, b, 1)

\* number of bits of an int n >= 0
IntBitLen(n) == Cardinality({k \in 0 .. 30 : 2 ^ k <= n})

\* number of bits of a: 0 for zero
BigBitLen(a) ==
    IF a = << >> THEN 0 ELSE (Len(a) - 1) * LimbBits + IntBitLen(a[Len(a)])

\* a * 2^n
BigShl(a, n) ==
    IF n = 0 THEN a
    ELSE BigShlLimbs(BigMulLimb(a, 2 ^ (n % LimbBits)), n \div LimbBits)

\* floor(a / 2^n)
BigShr(a, n) ==
    LET q == n \div LimbBits
        r == n % LimbBits
        m == Len(a) - q
    IN  IF m <= 0 THEN << >>
        ELSE BigNorm(SubSeq([k \in 1 .. m |->
                                (a[k + q] \div (2 ^ r))
                                + (Limb(a, k + q + 1) % (2 ^ r)) * (2 ^ (LimbBits - r))],
                            1, m))

\* bit k of a (bit 0 the lowest)
BigBit(a, k) == (Limb(a, (k \div LimbBits) + 1) \div (2 ^ (k % LimbBits))) % 2

\* a mod 2^n /= 0
BigLowNonZero(a, n) == BigShl(BigShr(a, n), n) # a

----------------------------------------------------------------------------
(* binary64: [m |-> significand, e |-> exponent], value m * 2^e            *)

MantBits == 53

FZero == [m |-> << >>, e |-> 0]

\* the double nearest to M * 2^E (ties to even), M > 0
FRound(M, E) ==
    LET L == BigBitLen(M)
    IN  IF L <= MantBits
        THEN [m |-> BigShl(M, MantBits - L), e |-> E - (MantBits - L)]
        ELSE LET s      == L - MantBits
                 q      == BigShr(M, s)
                 half   == BigBit(M, s - 1) = 1
                 sticky == BigLowNonZero(M, s - 1)
                 up     == half /\ (sticky \/ BigBit(q, 0) = 1)
                 q1     == IF up THEN BigAdd(q, <<1>>) ELSE q
             IN  IF BigBitLen(q1) > MantBits
                 THEN [m |-> BigShr(q1, 1), e |-> E + s + 1]
                 ELSE [m |-> q1, e |-> E + s]

\* int -> double (exact: an int has at most 31 bits)
FFromInt(n) == IF n = 0 THEN FZero ELSE FRound(BigFromInt(n), 0)

FAdd(a, b) ==
    IF a.m = << >> THEN b
    ELSE IF b.m = << >> THEN a
    ELSE LET e == IF a.e < b.e THEN a.e ELSE b.e
         IN  FRound(BigAdd(BigShl(a.m, a.e - e), BigShl(b.m, b.e - e)), e)

FMul(a, b) ==
    IF a.m = << >> \/ b.m = << >> THEN FZero
    ELSE FRound(BigMul(a.m, b.m), a.e + b.e)

\* the next base-LimbBase digit of a quotient: the c with
\* c * d <= rem * LimbBase < (c + 1) * d, for a significand d (MantBits bits)
\* and rem < d.  The quotient of the leading bits is within 1 of it.
DivDigit(rem, d) ==
    LET est == BigToInt(BigShr(rem, MantBits - 29))
                   \div BigToInt(BigShr(d, MantBits - 15))
        num == BigShlLimbs(rem, 1)
    IN  CHOOSE c \in {est - 1, est, est + 1} \cap (0 .. LimbBase - 1) :
            /\ BigCmp(BigMulLimb(d, c), num) <= 0
            /\ BigCmp(BigMulLimb(d, c + 1), num) > 0

\* long division: <<quotient, remainder>> of (rem * LimbBase^k) / d, rem < d,
\* the digits found so far in q (the lowest first)
RECURSIVE BigDivRec(_, _, _, _)
BigDivRec(rem, d, k, q) ==
    IF k = 0 THEN <<BigNorm(q), rem>>
    ELSE IF rem = << >> THEN <<BigShlLimbs(BigNorm(q), k), rem>>
    ELSE LET c == DivDigit(rem, d)
         IN  BigDivRec(BigSub(BigShlLimbs(rem, 1), BigMulLimb(d, c)), d, k - 1,
                       <<c>> \o q)

DivLimbs == 4

\* what x / 0.0 yields for x > 0; no divisor of the program is zero when
\* total_intervals > 0, and no operation below receives it
FInf == [m |-> << >>, e |-> 1]

\* a / b: the quotient to DivLimbs * LimbBits fraction bits and a sticky bit
\* for the rest, then rounded once
FDiv(a, b) ==
    IF b.m = << >> THEN FInf
    ELSE IF a.m = << >> THEN FZero
    ELSE LET ge == BigCmp(a.m, b.m) >= 0
             qr == BigDivRec(IF ge THEN BigSub(a.m, b.m) ELSE a.m, b.m, DivLimbs,
                             IF ge THEN <<1>> ELSE <<0>>)
         IN  IF qr[2] = << >>
             THEN FRound(BigAdd(qr[1], qr[1]), a.e - b.e - DivLimbs * LimbBits - 1)
             ELSE FRound(BigAdd(BigAdd(qr[1], qr[1]), <<1>>),
                         a.e - b.e - DivLimbs * LimbBits - 1)

----------------------------------------------------------------------------
(* The numerical code.  Every operation is rounded on its own, in the      *)
(* order the C++ expression evaluates it.                                  *)

FOne == FFromInt(1)

FTwo == FFromInt(2)

FFour == FFromInt(4)

\* f without the square: 4.0 / (1.0 + x)
fNoSquare(x) == FDiv(FFour, FAdd(FOne, x))

\* return 4.0 / (1.0 + x * x);
f(x) == FDiv(FFour, FAdd(FOne, FMul(x, x)))

\* double step = 1.0 / total_intervals;
step(total_intervals) == FDiv(FOne, FFromInt(total_intervals))

\* one pass of the loop body of integrate: the value added to sum for index i
TrapezoidTerm(i, total_intervals) ==
    LET st == step(total_intervals)
        x0 == FMul(FFromInt(i), st)
        x1 == FMul(FFromInt(i + 1), st)
    IN  FDiv(FMul(FAdd(f(x0), f(x1)), st), FTwo)

----------------------------------------------------------------------------
(* Bounds of the model.                                                    *)

\* total_intervals ranges over 1..MaxIntervals (main fixes it at 100000000)
MaxIntervals == 4

\* the accepted thread counts that are run: 1..MaxThreads
MaxThreads == 4

\* a clock reading is one of 0..MaxClock
MaxClock == 1

\* total_intervals of SpecPart ranges over 1..MaxPartIntervals
MaxPartIntervals == 6

\* if (num_threads < 1 || num_threads > 50)
THREADS_MIN == 1

THREADS_MAX == 50

\* the integers std::cin may deliver that the model runs: a negative count,
\* every count from 0 to MaxThreads, and the first count above the accepted
\* range
Inputs == (-1 .. MaxThreads) \cup {THREADS_MAX + 1}

ClockValues == 0 .. MaxClock

\* ChunkStart that begins every chunk but the first one index late: the
\* first interval of those chunks is in no chunk
ChunkStartLate(i, ipt) == IF i = 0 THEN 0 ELSE i * ipt + 1

\* int start = i * intervals_per_thread;
ChunkStart(i, ipt) == i * ipt

\* ChunkEnd that gives every chunk but the last one interval more
ChunkEndOneMore(i, n, total, ipt) == IF i = n - 1 THEN total ELSE (i + 1) * ipt + 1

\* ChunkEnd without the case of the last worker: every chunk has
\* intervals_per_thread intervals and the remainder of the division is dropped
ChunkEndNoRemainder(i, n, total, ipt) == (i + 1) * ipt

\* int end = (i == num_threads - 1) ? total_intervals : (i + 1) * intervals_per_thread;
ChunkEnd(i, n, total, ipt) == IF i = n - 1 THEN total ELSE (i + 1) * ipt

----------------------------------------------------------------------------
(* The program state.                                                      *)

VARIABLES
    pc,                   \* where the main thread is
    total_intervals,      \* main's constant
    num_threads,          \* main's local, set by std::cin
    intervals_per_thread, \* calculatePi's local
    threads,              \* std::vector<std::thread>: worker i is threads[i + 1]
    results,              \* std::vector<double>: slot i is results[i + 1]
    launchPos,            \* the launch loop's i
    joinPos,              \* how many elements the join loop has passed
    sumPos,               \* how many elements the summing loop has passed
    pi,                   \* calculatePi's accumulator
    start_time, end_time, \* the two clock readings
    out,                  \* what was printed, in order, on both streams
    exit_status,          \* main's return value, -1 while running
    writes,               \* history: each store into results by a worker
    reads,                \* history: each read of results by the main thread
    events,               \* history: what the main thread did, in order
    terms,                \* auxiliary: terms[i + 1] is what the loop body of
                          \* integrate adds to sum for index i, fixed by
                          \* total_intervals
    part                  \* used by SpecPart alone: the cut points chosen so far
                          \* and the sum of integrate over the chunks between them

vars == <<pc, total_intervals, num_threads, intervals_per_thread, threads,
          results, launchPos, joinPos, sumPos, pi, start_time, end_time, out,
          exit_status, writes, reads, events, terms, part>>

coordVars == <<total_intervals, num_threads, intervals_per_thread, launchPos, joinPos,
               sumPos, pi, start_time, end_time, out, exit_status, terms, part>>

\* SlotOf with the index captured by reference, read after the launch loop
\* has moved on: every worker stores into the slot of worker 0
SlotOfShared(i) == 0

\* the slot the lambda of worker i stores into: results[i], i captured by value
SlotOf(i) == i

\* SumSlot in completion order: the k-th pass reads the slot that was stored
\* k-th
SumSlotByCompletion(k) == IF k < Len(writes) THEN writes[k + 1].slot ELSE k

\* the slot the k-th pass of "for (double result : results)" reads
SumSlot(k) == k

\* sum += (f(x0) + f(x1)) * step / 2.0; for index i
Term(k) == terms[k + 1]

\* the loop of integrate from index i on, with sum so far
RECURSIVE integrateLoop(_, _, _)
integrateLoop(k, end, sum) ==
    IF k < end THEN integrateLoop(k + 1, end, FAdd(sum, Term(k))) ELSE sum

\* integrate whose loop starts one index late: for (int i = start + 1; ...)
integrateSkipFirst(start, end) == integrateLoop(start + 1, end, FZero)

\* integrate(start, end, total_intervals), for the total_intervals of the run
integrate(start, end) == integrateLoop(start, end, FZero)

TermsOf(total) ==
    SubSeq([k \in 1 .. total |-> TrapezoidTerm(k - 1, total)], 1, total)

Init ==
    /\ pc = "prompt"
    /\ total_intervals \in 1 .. MaxIntervals
    /\ num_threads = 0
    /\ intervals_per_thread = 0
    /\ threads = << >>
    /\ results = << >>
    /\ launchPos = 0
    /\ joinPos = 0
    /\ sumPos = 0
    /\ pi = FZero
    /\ start_time = 0
    /\ end_time = 0
    /\ out = << >>
    /\ exit_status = -1
    /\ writes = << >>
    /\ reads = << >>
    /\ events = << >>
    /\ terms = TermsOf(total_intervals)
    /\ part = [cuts |-> <<0>>, acc |-> FZero]

\* std::cout << "Podaj liczbe watkow (1-50): ";
Prompt ==
    /\ pc = "prompt"
    /\ out' = Append(out, [stream |-> "stdout", line |-> "prompt", arg |-> << >>])
    /\ events' = Append(events, "prompt")
    /\ pc' = "read"
    /\ UNCHANGED <<total_intervals, num_threads, intervals_per_thread, threads,
                   results, launchPos, joinPos, sumPos, pi, start_time, end_time,
                   exit_status, writes, reads, terms, part>>

\* std::cin >> num_threads;
ReadThreads ==
    /\ pc = "read"
    /\ \E n \in Inputs : num_threads' = n
    /\ events' = Append(events, "read")
    /\ pc' = "check"
    /\ UNCHANGED <<total_intervals, intervals_per_thread, threads, results, launchPos,
                   joinPos, sumPos, pi, start_time, end_time, out, exit_status,
                   writes, reads, terms, part>>

\* OutOfRange without the upper limit: if (num_threads < 1)
OutOfRangeNoUpper(n) == n < THREADS_MIN

\* if (num_threads < 1 || num_threads > 50)
OutOfRange(n) == n < THREADS_MIN \/ n > THREADS_MAX

\* the if of main taken: the message on std::cerr and return 1
Reject ==
    /\ pc = "check"
    /\ OutOfRange(num_threads)
    /\ out' = Append(out, [stream |-> "stderr", line |-> "range_error", arg |-> << >>])
    /\ exit_status' = 1
    /\ events' = Append(events, "exit")
    /\ pc' = "exit"
    /\ UNCHANGED <<total_intervals, num_threads, intervals_per_thread, threads,
                   results, launchPos, joinPos, sumPos, pi, start_time, end_time,
                   writes, reads, terms, part>>

\* CalcEnter with the division rounded up:
\* intervals_per_thread = (total_intervals + num_threads - 1) / num_threads
CalcEnterCeil ==
    /\ pc = "check"
    /\ ~OutOfRange(num_threads)
    /\ intervals_per_thread' = (total_intervals + num_threads - 1) \div num_threads
    /\ threads' = << >>
    /\ results' = [k \in 1 .. num_threads |-> FZero]
    /\ start_time' \in ClockValues
    /\ events' = Append(events, "start_time")
    /\ launchPos' = 0
    /\ pc' = "launch"
    /\ UNCHANGED <<total_intervals, num_threads, joinPos, sumPos, pi, end_time,
                   out, exit_status, writes, reads, terms, part>>

\* the if of main not taken: calculatePi(total_intervals, num_threads) is
\* entered and runs up to the first pass of the launch loop
CalcEnter ==
    /\ pc = "check"
    /\ ~OutOfRange(num_threads)
    /\ intervals_per_thread' = total_intervals \div num_threads
    /\ threads' = << >>
    /\ results' = [k \in 1 .. num_threads |-> FZero]
    /\ start_time' \in ClockValues
    /\ events' = Append(events, "start_time")
    /\ launchPos' = 0
    /\ pc' = "launch"
    /\ UNCHANGED <<total_intervals, num_threads, joinPos, sumPos, pi, end_time,
                   out, exit_status, writes, reads, terms, part>>

\* Launch of a loop that runs one pass too many: for (i = 0; i <= num_threads; ++i)
LaunchOneMore ==
    /\ pc = "launch"
    /\ launchPos <= num_threads
    /\ LET start == ChunkStart(launchPos, intervals_per_thread)
           end   == ChunkEnd(launchPos, num_threads, total_intervals, intervals_per_thread)
       IN  threads' = Append(threads,
                [pc |-> "loop", id |-> launchPos, start |-> start, end |-> end,
                 i |-> start, sum |-> FZero, joins |-> 0])
    /\ launchPos' = launchPos + 1
    /\ events' = Append(events, "launch")
    /\ UNCHANGED <<pc, total_intervals, num_threads, intervals_per_thread,
                   results, joinPos, sumPos, pi, start_time, end_time, out,
                   exit_status, writes, reads, terms, part>>

\* one pass of the launch loop: the chunk of worker i and its std::thread
Launch ==
    /\ pc = "launch"
    /\ launchPos < num_threads
    /\ LET start == ChunkStart(launchPos, intervals_per_thread)
           end   == ChunkEnd(launchPos, num_threads, total_intervals, intervals_per_thread)
       IN  threads' = Append(threads,
                [pc |-> "loop", id |-> launchPos, start |-> start, end |-> end,
                 i |-> start, sum |-> FZero, joins |-> 0])
    /\ launchPos' = launchPos + 1
    /\ events' = Append(events, "launch")
    /\ UNCHANGED <<pc, total_intervals, num_threads, intervals_per_thread,
                   results, joinPos, sumPos, pi, start_time, end_time, out,
                   exit_status, writes, reads, terms, part>>

\* LaunchDone with the start timestamp taken here, after the launch loop
LaunchDoneStamps ==
    /\ pc = "launch"
    /\ ~(launchPos < num_threads)
    /\ start_time' \in ClockValues
    /\ events' = Append(events, "start_time")
    /\ joinPos' = 0
    /\ pc' = "join"
    /\ UNCHANGED <<total_intervals, num_threads, intervals_per_thread, threads,
                   results, launchPos, sumPos, pi, end_time, out,
                   exit_status, writes, reads, terms, part>>

\* the launch loop ends
LaunchDone ==
    /\ pc = "launch"
    /\ ~(launchPos < num_threads)
    /\ joinPos' = 0
    /\ pc' = "join"
    /\ UNCHANGED <<total_intervals, num_threads, intervals_per_thread, threads,
                   results, launchPos, sumPos, pi, start_time, end_time, out,
                   exit_status, writes, reads, events, terms, part>>

\* JoinReady of a join that never returns
JoinReadyNever(t) == FALSE

\* JoinReady of a join that does not wait (a detached thread)
JoinReadyNoWait(t) == TRUE

\* t.join() returns once the thread has finished
JoinReady(t) == t.pc = "done"

\* JoinCount of a join loop that stops one element early
JoinCountSkipLast(ts) == Len(ts) - 1

\* for (auto& t : threads): the elements the join loop passes
JoinCount(ts) == Len(ts)

\* one pass of the join loop
Join ==
    /\ pc = "join"
    /\ joinPos < JoinCount(threads)
    /\ JoinReady(threads[joinPos + 1])
    /\ threads' = [threads EXCEPT ![joinPos + 1].joins = @ + 1]
    /\ joinPos' = joinPos + 1
    /\ events' = Append(events, "join")
    /\ UNCHANGED <<pc, total_intervals, num_threads, intervals_per_thread,
                   results, launchPos, sumPos, pi, start_time, end_time, out,
                   exit_status, writes, reads, terms, part>>

\* the join loop ends; double pi = 0.0;
JoinDone ==
    /\ pc = "join"
    /\ ~(joinPos < JoinCount(threads))
    /\ pi' = FZero
    /\ sumPos' = 0
    /\ pc' = "sum"
    /\ UNCHANGED <<total_intervals, num_threads, intervals_per_thread, threads,
                   results, launchPos, joinPos, start_time, end_time, out, exit_status,
                   writes, reads, events, terms, part>>

\* one pass of the summing loop: pi += result;
SumStep ==
    /\ pc = "sum"
    /\ sumPos < Len(results)
    /\ LET slot == SumSlot(sumPos)
       IN  /\ pi' = FAdd(pi, results[slot + 1])
           /\ reads' = Append(reads,
                  [slot |-> slot,
                   joined |-> slot < Len(threads) /\ threads[slot + 1].joins > 0])
    /\ sumPos' = sumPos + 1
    /\ events' = Append(events, "aggregate")
    /\ UNCHANGED <<pc, total_intervals, num_threads, intervals_per_thread,
                   threads, results, launchPos, joinPos, start_time, end_time, out,
                   exit_status, writes, terms, part>>

\* the summing loop ends; auto end_time = ...::now();
SumDone ==
    /\ pc = "sum"
    /\ ~(sumPos < Len(results))
    /\ end_time' \in ClockValues
    /\ events' = Append(events, "end_time")
    /\ pc' = "print_time"
    /\ UNCHANGED <<total_intervals, num_threads, intervals_per_thread, threads,
                   results, launchPos, joinPos, sumPos, pi, start_time, out,
                   exit_status, writes, reads, terms, part>>

\* std::cout << "Czas obliczen z " << num_threads << " watkami: " << ... ;
PrintTime ==
    /\ pc = "print_time"
    /\ out' = Append(out, [stream |-> "stdout", line |-> "timing",
                            arg |-> <<num_threads, end_time - start_time>>])
    /\ events' = Append(events, "timing")
    /\ pc' = "return"
    /\ UNCHANGED <<total_intervals, num_threads, intervals_per_thread, threads,
                   results, launchPos, joinPos, sumPos, pi, start_time, end_time,
                   exit_status, writes, reads, terms, part>>

\* return pi; and main's std::cout << "Przyblizona wartosc PI wynosi: " << pi
PrintPi ==
    /\ pc = "return"
    /\ out' = Append(out, [stream |-> "stdout", line |-> "pi", arg |-> <<pi>>])
    /\ events' = Append(events, "pi")
    /\ pc' = "print_pi"
    /\ UNCHANGED <<total_intervals, num_threads, intervals_per_thread, threads,
                   results, launchPos, joinPos, sumPos, pi, start_time, end_time,
                   exit_status, writes, reads, terms, part>>

\* Exit0 of a main that asks again where it should return 0
Exit0Retry ==
    /\ pc = "print_pi"
    /\ pc' = "prompt"
    /\ UNCHANGED <<total_intervals, num_threads, intervals_per_thread, threads,
                   results, launchPos, joinPos, sumPos, pi, start_time, end_time, out,
                   exit_status, writes, reads, events, terms, part>>

\* return 0;
Exit0 ==
    /\ pc = "print_pi"
    /\ exit_status' = 0
    /\ events' = Append(events, "exit")
    /\ pc' = "exit"
    /\ UNCHANGED <<total_intervals, num_threads, intervals_per_thread, threads,
                   results, launchPos, joinPos, sumPos, pi, start_time, end_time, out,
                   writes, reads, terms, part>>

\* worker w runs one pass of the loop of integrate
WorkerStep(w) ==
    /\ threads[w].pc = "loop"
    /\ threads[w].i < threads[w].end
    /\ threads' = [threads EXCEPT
                     ![w].sum = FAdd(@, Term(threads[w].i)),
                     ![w].i = @ + 1]
    /\ UNCHANGED <<pc, results, writes, reads, events>>
    /\ UNCHANGED coordVars

\* the loop of integrate ends in worker w: results[i] = <the sum returned>
WorkerStore(w) ==
    /\ threads[w].pc = "loop"
    /\ ~(threads[w].i < threads[w].end)
    /\ results' = [results EXCEPT ![SlotOf(threads[w].id) + 1] = threads[w].sum]
    /\ writes' = Append(writes, [by |-> threads[w].id, slot |-> SlotOf(threads[w].id)])
    /\ threads' = [threads EXCEPT ![w].pc = "done"]
    /\ UNCHANGED <<pc, reads, events>>
    /\ UNCHANGED coordVars

Worker == \E w \in 1 .. Len(threads) : WorkerStep(w) \/ WorkerStore(w)

Next ==
    \/ Prompt
    \/ ReadThreads
    \/ Reject
    \/ CalcEnter
    \/ Launch
    \/ LaunchDone
    \/ Join
    \/ JoinDone
    \/ SumStep
    \/ SumDone
    \/ PrintTime
    \/ PrintPi
    \/ Exit0
    \/ Worker

Spec == Init /\ [][Next]_vars

----------------------------------------------------------------------------
(* The same program under fair scheduling: a thread that can take a step   *)
(* takes one.  Only std::cin >> num_threads may wait for ever.  For the    *)
(* two steps that add doubles the weak fairness WF_vars(A) is written out  *)
(* as []<>~(A can be taken) \/ []<><<A>>_vars, with "A can be taken" given *)
(* by the conditions of A on the state it starts from.                     *)

\* the steps of the main thread that neither wait for input nor add doubles
MainThread ==
    \/ Prompt
    \/ Reject
    \/ CalcEnter
    \/ Launch
    \/ LaunchDone
    \/ Join
    \/ JoinDone
    \/ SumDone
    \/ PrintTime
    \/ PrintPi
    \/ Exit0

\* the summing loop has a pass to run
SumStepReady == pc = "sum" /\ sumPos < Len(results)

\* the steps of the thread of worker w - 1
WorkerLoop(w) == w <= Len(threads) /\ WorkerStep(w)

WorkerReturn(w) == w <= Len(threads) /\ WorkerStore(w)

\* the loop of worker w - 1 has a pass to run
WorkerLoopReady(w) ==
    w <= Len(threads) /\ threads[w].pc = "loop" /\ threads[w].i < threads[w].end

\* the main thread can take a step: it is not waiting for input, has not
\* returned from main, and is not inside a join that has not returned
MainCanStep ==
    /\ pc \notin {"read", "exit", "part", "integrate"}
    /\ pc = "join" =>
          (joinPos < JoinCount(threads) => JoinReady(threads[joinPos + 1]))

\* the thread of worker w - 1 can take a step: it has been launched and its
\* lambda has not returned
WorkerCanStep(w) == w <= Len(threads) /\ threads[w].pc = "loop"

Fairness ==
    /\ WF_vars(MainThread)
    /\ []<>~SumStepReady \/ []<><<SumStep>>_vars
    /\ \A w \in 1 .. MaxThreads :
          /\ WF_vars(WorkerReturn(w))
          /\ []<>~WorkerLoopReady(w) \/ []<><<WorkerLoop(w)>>_vars

FairSpec == Spec /\ Fairness

----------------------------------------------------------------------------
(* integrate alone, applied chunk by chunk to a split of                   *)
(* [0, total_intervals) that is chosen cut by cut.                         *)

InitPart ==
    /\ pc = "part"
    /\ total_intervals \in 1 .. MaxPartIntervals
    /\ num_threads = 0
    /\ intervals_per_thread = 0
    /\ threads = << >>
    /\ results = << >>
    /\ launchPos = 0
    /\ joinPos = 0
    /\ sumPos = 0
    /\ pi = FZero
    /\ start_time = 0
    /\ end_time = 0
    /\ out = << >>
    /\ exit_status = -1
    /\ writes = << >>
    /\ reads = << >>
    /\ events = << >>
    /\ terms = TermsOf(total_intervals)
    /\ part = [cuts |-> <<0>>, acc |-> FZero]

\* the last cut point chosen
LastCut == part.cuts[Len(part.cuts)]

\* the next chunk [LastCut, c) is chosen and integrate over it is added
PartChunk ==
    /\ pc = "part"
    /\ \E c \in LastCut + 1 .. total_intervals :
          part' = [cuts |-> Append(part.cuts, c),
                   acc  |-> FAdd(part.acc, integrate(LastCut, c))]
    /\ UNCHANGED <<pc, total_intervals, num_threads, intervals_per_thread, threads,
                   results, launchPos, joinPos, sumPos, pi, start_time, end_time, out,
                   exit_status, writes, reads, events, terms>>

NextPart == PartChunk

SpecPart == InitPart /\ [][NextPart]_vars

----------------------------------------------------------------------------
(* One call integrate(start, end, total_intervals) with any arguments      *)
(* 0 <= start <= end <= total_intervals, run pass by pass by the thread of *)
(* a lambda that stores what the call returns into slot 0.                 *)

InitIntegrate ==
    /\ pc = "integrate"
    /\ total_intervals \in 1 .. MaxPartIntervals
    /\ num_threads = 0
    /\ intervals_per_thread = 0
    /\ \E start \in 0 .. total_intervals : \E end \in start .. total_intervals :
          threads = << [pc |-> "loop", id |-> 0, start |-> start, end |-> end,
                        i |-> start, sum |-> FZero, joins |-> 0] >>
    /\ results = <<FZero>>
    /\ launchPos = 0
    /\ joinPos = 0
    /\ sumPos = 0
    /\ pi = FZero
    /\ start_time = 0
    /\ end_time = 0
    /\ out = << >>
    /\ exit_status = -1
    /\ writes = << >>
    /\ reads = << >>
    /\ events = << >>
    /\ terms = TermsOf(total_intervals)
    /\ part = [cuts |-> <<0>>, acc |-> FZero]

NextIntegrate == Worker

SpecIntegrate == InitIntegrate /\ [][NextIntegrate]_vars

----------------------------------------------------------------------------
(* What the claims below speak of.                                         *)

\* the thread count read is one of 1..50
InRange == num_threads >= 1 /\ num_threads <= 50

\* calculatePi has been entered with a thread count that is in range
Accepted == pc \notin {"prompt", "read", "check"} /\ InRange

\* the launch loop has ended
AllLaunched == Accepted /\ pc # "launch"

\* the join loop has ended
PastJoin == AllLaunched /\ pc # "join"

\* the summing loop has ended
SumFinished == PastJoin /\ pc # "sum"

\* calculatePi has returned
Returned == SumFinished /\ pc # "print_time"

RECURSIVE ChunkSizeSum(_)
ChunkSizeSum(k) ==
    IF k = 0 THEN 0 ELSE ChunkSizeSum(k - 1) + (threads[k].end - threads[k].start)

\* the indices of the chunk of worker w: [start, end)
ChunkOf(w) == threads[w].start .. threads[w].end - 1

----------------------------------------------------------------------------
\* C1: for 1 <= num_threads <= total_intervals the chunks the workers are
\* launched with are contiguous, start at 0, do not overlap, the last one ends
\* at total_intervals, together they cover every index of
\* [0, total_intervals) exactly once, and their sizes sum to total_intervals.
C1_ChunksPartition ==
    (num_threads >= 1 /\ num_threads <= total_intervals) =>
        /\ \A w \in 1 .. Len(threads) : threads[w].start <= threads[w].end
        /\ Len(threads) >= 1 => threads[1].start = 0
        /\ \A w \in 1 .. Len(threads) - 1 : threads[w].end = threads[w + 1].start
        /\ \A v, w \in 1 .. Len(threads) : v # w => ChunkOf(v) \cap ChunkOf(w) = {}
        /\ AllLaunched =>
              /\ Len(threads) = num_threads
              /\ threads[num_threads].end = total_intervals
              /\ \A k \in 0 .. total_intervals - 1 :
                     Cardinality({w \in 1 .. Len(threads) : k \in ChunkOf(w)}) = 1
              /\ ChunkSizeSum(num_threads) = total_intervals

\* every worker is launched, and the division left a remainder for the last
C1_Witness ==
    /\ AllLaunched
    /\ num_threads >= 2
    /\ num_threads <= total_intervals
    /\ total_intervals % num_threads # 0

----------------------------------------------------------------------------
\* C2: the main thread reads no slot of results, and does not go past the
\* join loop, before every worker has finished and has been joined; while a
\* worker has not finished the main thread is not aggregating.
C2_JoinBarrier ==
    /\ (PastJoin \/ reads # << >>) =>
           /\ Len(threads) = num_threads
           /\ \A w \in 1 .. Len(threads) :
                  threads[w].pc = "done" /\ threads[w].joins >= 1
    /\ (\E w \in 1 .. Len(threads) : threads[w].pc # "done") =>
           pc \in {"launch", "join"} /\ sumPos = 0 /\ reads = << >>

\* the summing loop has read a slot, of a run with several workers
C2_Witness == pc = "sum" /\ Len(reads) >= 1 /\ num_threads >= 2

----------------------------------------------------------------------------
\* a step of a worker: the main thread does nothing in it
WorkerMoves == pc' = pc /\ events' = events /\ threads' # threads

\* C3: worker i stores into slot i alone and exactly once, no two workers
\* store into the same slot, a worker changes nothing else that is shared,
\* and the main thread reads a slot only after the join of its owner.
C3_SlotInv ==
    /\ \A k \in 1 .. Len(writes) : writes[k].slot = writes[k].by
    /\ \A j, k \in 1 .. Len(writes) : j # k => writes[j].slot # writes[k].slot
    /\ \A w \in 1 .. Len(threads) :
          Cardinality({k \in 1 .. Len(writes) : writes[k].by = threads[w].id})
              = (IF threads[w].pc = "done" THEN 1 ELSE 0)
    /\ \A k \in 1 .. Len(reads) : reads[k].joined

C3_WorkerFootprint ==
    WorkerMoves =>
        /\ UNCHANGED coordVars
        /\ reads' = reads
        /\ \E w \in 1 .. Len(threads) :
              /\ \A v \in 1 .. Len(threads) : v # w => threads'[v] = threads[v]
              /\ \A k \in 1 .. Len(results) :
                    k # threads[w].id + 1 => results'[k] = results[k]

C3_SlotOwnership == []C3_SlotInv /\ [][C3_WorkerFootprint]_vars

\* two workers have stored and the main thread has read both slots
C3_Witness == Len(writes) >= 2 /\ Len(reads) >= 2

----------------------------------------------------------------------------
\* calculatePi(total_intervals, n) run by one thread: the partial sums of the
\* chunks added to 0.0 in ascending index order
RECURSIVE sumResults(_, _, _)
sumResults(k, n, acc) ==
    IF k < n
    THEN sumResults(k + 1, n,
             FAdd(acc, integrate(ChunkStart(k, total_intervals \div n),
                                 ChunkEnd(k, n, total_intervals, total_intervals \div n))))
    ELSE acc

calculatePi(n) == sumResults(0, n, FZero)

\* C4: whatever the order in which the workers ran and finished, the slots
\* are read in ascending index order and the value returned is the sum, in
\* that order, of the partial sums of the chunks.
C4_SchedulingIndependent ==
    /\ \A k \in 1 .. Len(reads) : reads[k].slot = k - 1
    /\ SumFinished =>
          /\ Len(reads) = num_threads
          /\ pi = calculatePi(num_threads)

\* calculatePi returns after the workers finished in an order that is not
\* the index order
C4_Witness ==
    /\ pc = "return"
    /\ num_threads >= 3
    /\ writes[1].by # 0
    /\ writes[2].by # 1

----------------------------------------------------------------------------
\* |a - b| <= n * 2^p for doubles a, b and a natural n, decided exactly
FAbsDiffLe(a, b, n, p) ==
    LET e == IF a.m = << >> THEN b.e
             ELSE IF b.m = << >> THEN a.e
             ELSE IF a.e < b.e THEN a.e ELSE b.e
        A == IF a.m = << >> THEN << >> ELSE BigShl(a.m, a.e - e)
        B == IF b.m = << >> THEN << >> ELSE BigShl(b.m, b.e - e)
        D == IF BigCmp(A, B) >= 0 THEN BigSub(A, B) ELSE BigSub(B, A)
    IN  IF e >= p
        THEN BigCmp(BigShl(D, e - p), BigFromInt(n)) <= 0
        ELSE BigCmp(D, BigShl(BigFromInt(n), p - e)) <= 0

\* the bound on what the rounding of the additions can change: every term is
\* below 4 / total_intervals * (1 + 2^-50), a sum of them stays below 8, and
\* at most total_intervals additions round, each by at most 2^-51
WithinRounding(a, b) == FAbsDiffLe(a, b, total_intervals, 4 - MantBits)

\* C5 as stated: the value returned is the value every other thread count
\* returns, that of one thread included.
C5_SameValueAsOneThread == SumFinished => pi = calculatePi(1)

\* C5, amended: the values returned for two thread counts agree up to the
\* rounding of the additions, within total_intervals * 2^-49 of the value of
\* one thread, and are that value when num_threads is 1 or exceeds
\* total_intervals.
C5_SameValueUpToRounding ==
    SumFinished =>
        /\ WithinRounding(pi, calculatePi(1))
        /\ (num_threads = 1 \/ num_threads > total_intervals) => pi = calculatePi(1)

\* a thread count whose value is not the value of one thread
C5_Witness == SumFinished /\ num_threads >= 2 /\ pi # calculatePi(1)

----------------------------------------------------------------------------
\* the split is complete: the last chunk ends at total_intervals
SplitComplete == pc = "part" /\ LastCut = total_intervals

\* C6 as stated: integrate over [0, total_intervals) equals the sum of
\* integrate over the chunks of every split into contiguous chunks.
C6_AdditiveExactly == SplitComplete => part.acc = integrate(0, total_intervals)

\* C6, amended: the sum of integrate over the chunks of a split agrees with
\* integrate over [0, total_intervals) up to the rounding of the additions,
\* within total_intervals * 2^-49, and is equal to it for the split into one
\* chunk.
C6_AdditiveUpToRounding ==
    SplitComplete =>
        /\ WithinRounding(part.acc, integrate(0, total_intervals))
        /\ Len(part.cuts) = 2 => part.acc = integrate(0, total_intervals)

\* a complete split into several chunks whose sum is not integrate over the
\* whole range
C6_Witness ==
    /\ SplitComplete
    /\ Len(part.cuts) >= 3
    /\ part.acc # integrate(0, total_intervals)

----------------------------------------------------------------------------
\* the lines printed so far, without their arguments
Lines == [k \in 1 .. Len(out) |-> <<out[k].stream, out[k].line>>]

\* std::cin has delivered the thread count
AfterRead == pc \in {"check", "launch", "join", "sum", "print_time", "return",
                     "print_pi", "exit"}

----------------------------------------------------------------------------
\* the places in events where e stands
EventsAt(e) == {k \in 1 .. Len(events) : events[k] = e}

\* C8 as stated: the end timestamp is taken after the last join with no
\* aggregation of partial results between the last join and the timestamp.
C8_EndStampBeforeAggregation ==
    \A e \in EventsAt("end_time") :
        /\ \A j \in EventsAt("join") : j < e
        /\ ~\E a \in EventsAt("aggregate") :
              a < e /\ \A j \in EventsAt("join") : j < a

\* C8, amended: the start timestamp is taken once, before the first worker
\* is launched; the end timestamp is taken once, after the last join and
\* after all the partial results have been aggregated, before the timing
\* line is printed; the value returned is the same for every pair of clock
\* readings.
C8_TimingWindow ==
    /\ Cardinality(EventsAt("start_time")) <= 1
    /\ Cardinality(EventsAt("end_time")) <= 1
    /\ \A l \in EventsAt("launch") : \E b \in EventsAt("start_time") : b < l
    /\ \A e \in EventsAt("end_time") :
          /\ Cardinality(EventsAt("join")) = num_threads
          /\ Cardinality(EventsAt("aggregate")) = num_threads
          /\ \A j \in EventsAt("join") : j < e
          /\ \A a \in EventsAt("aggregate") : a < e
    /\ \A t \in EventsAt("timing") : \E e \in EventsAt("end_time") : e < t
    /\ \A k \in 1 .. Len(out) :
          out[k].line = "timing" => out[k].arg = <<num_threads, end_time - start_time>>
    /\ \A e \in EventsAt("end_time") : pi = sumResults(0, num_threads, FZero)

\* the timing line is printed with a measured time that is not zero
C8_Witness ==
    /\ pc = "return"
    /\ num_threads >= 2
    /\ end_time # start_time
    /\ out[Len(out)].line = "timing"

----------------------------------------------------------------------------
\* C9: when calculatePi has returned, every worker it launched has finished
\* and has been joined exactly once; no worker is joined twice or before it
\* has finished, and each std::thread of the call runs one chunk of its own.
C9_NoTaskOutlivesCall ==
    /\ \A w \in 1 .. Len(threads) :
          /\ threads[w].id = w - 1
          /\ threads[w].joins <= 1
          /\ threads[w].joins = 1 => threads[w].pc = "done"
    /\ Returned =>
          /\ Len(threads) = num_threads
          /\ \A w \in 1 .. Len(threads) :
                threads[w].pc = "done" /\ threads[w].joins = 1

\* the program has printed the PI line of a run with several workers
C9_Witness == pc = "print_pi" /\ num_threads >= 2 /\ Len(threads) = num_threads

----------------------------------------------------------------------------
\* n times the event e
Repeat(e, n) == SubSeq([k \in 1 .. n |-> e], 1, n)

\* what the main thread does in a run with n workers
ExpectedEvents(n) ==
    <<"prompt", "read", "start_time">> \o Repeat("launch", n) \o Repeat("join", n)
        \o Repeat("aggregate", n) \o <<"end_time", "timing", "pi", "exit">>

IsPrefix(a, b) == Len(a) <= Len(b) /\ a = SubSeq(b, 1, Len(a))

\* C10: in a run with an accepted thread count the events happen once each
\* and in this order: prompt, read, every launch, every join, every
\* aggregation, timing line, PI line, exit with status 0; both lines go to
\* standard output, the timing line first.
C10_SinglePass ==
    /\ ~AfterRead => IsPrefix(events, <<"prompt", "read">>)
    /\ (AfterRead /\ InRange) =>
          /\ IsPrefix(events, ExpectedEvents(num_threads))
          /\ pc = "exit" =>
                /\ events = ExpectedEvents(num_threads)
                /\ exit_status = 0
                /\ Lines = << <<"stdout", "prompt">>, <<"stdout", "timing">>,
                              <<"stdout", "pi">> >>

\* a run with several workers has ended with status 0
C10_Witness == pc = "exit" /\ exit_status = 0 /\ num_threads >= 2

----------------------------------------------------------------------------
\* the chunk of worker w as a pair
Chunk(w) == <<threads[w].start, threads[w].end>>

\* C11: with q = total_intervals div num_threads, worker i < num_threads - 1
\* gets [i*q, (i+1)*q) of size q and the last worker gets
\* [(num_threads-1)*q, total_intervals) of size q + total_intervals mod
\* num_threads, which is no smaller than any other chunk; total_intervals = 4
\* and num_threads = 2 give [0,2) and [2,4).
C11_ChunkFormula ==
    LET q == total_intervals \div num_threads
        r == total_intervals % num_threads
    IN  InRange =>
          /\ \A w \in 1 .. Len(threads) :
                IF w < num_threads
                THEN /\ Chunk(w) = <<(w - 1) * q, w * q>>
                     /\ threads[w].end - threads[w].start = q
                ELSE /\ Chunk(w) = <<(num_threads - 1) * q, total_intervals>>
                     /\ threads[w].end - threads[w].start = q + r
                     /\ \A v \in 1 .. Len(threads) :
                           threads[v].end - threads[v].start
                               <= threads[w].end - threads[w].start
          /\ (AllLaunched /\ total_intervals = 4 /\ num_threads = 2) =>
                Chunk(1) = <<0, 2>> /\ Chunk(2) = <<2, 4>>

\* the workers of a run whose division leaves a remainder are launched: the
\* last of three chunks of four intervals has two of them
C11_Witness ==
    /\ AllLaunched
    /\ total_intervals = 4
    /\ num_threads = 3
    /\ Chunk(3) = <<2, 4>>

----------------------------------------------------------------------------
\* the workers that have been launched and have not finished
Alive == {w \in 1 .. Len(threads) : threads[w].pc # "done"}

\* C12: calculatePi launches exactly num_threads workers, one per index i in
\* [0, num_threads); worker i runs integrate on chunk i and stores what it
\* returns into slot i; the workers alive never number more than num_threads,
\* which is at most 50.
C12_WorkerCount ==
    InRange =>
        /\ Len(threads) <= num_threads
        /\ AllLaunched => Len(threads) = num_threads
        /\ Cardinality(Alive) <= num_threads
        /\ Cardinality(Alive) <= 50
        /\ \A w \in 1 .. Len(threads) :
              LET t == threads[w]
                  q == total_intervals \div num_threads
              IN  /\ t.id = w - 1
                  /\ t.start = (w - 1) * q
                  /\ t.end = (IF w = num_threads THEN total_intervals ELSE w * q)
                  /\ t.start <= t.i /\ t.i <= t.end
                  /\ t.sum = integrateLoop(t.start, t.i, FZero)
                  /\ t.pc = "done" =>
                        /\ t.i = t.end
                        /\ results[w] = t.sum
                        /\ {k \in 1 .. Len(writes) : writes[k].by = w - 1}
                             = {k \in 1 .. Len(writes) : writes[k].slot = w - 1}
                        /\ Cardinality({k \in 1 .. Len(writes) : writes[k].slot = w - 1}) = 1

\* every worker of a run with the most workers the model runs is alive
C12_Witness ==
    /\ AllLaunched
    /\ num_threads = MaxThreads
    /\ Cardinality(Alive) = num_threads

----------------------------------------------------------------------------
\* |v * d - n| <= d * 2^p for a double v > 0 and naturals n, d: v is within
\* 2^p of the fraction n / d
FCloseToRatio(v, n, d, p) ==
    LET L == BigMul(v.m, BigFromInt(d))
        R == BigShl(BigFromInt(n), 0 - v.e)
        D == IF BigCmp(L, R) >= 0 THEN BigSub(L, R) ELSE BigSub(R, L)
    IN  BigCmp(D, BigShl(BigFromInt(d), p - v.e)) <= 0

\* (f(i*step) + f((i+1)*step)) * step / 2 with step = 1/n and
\* f(x) = 4/(1+x*x), each operation rounded to double
TrapezoidOf(i, n) ==
    LET st == FDiv(FOne, FFromInt(n))
        x0 == FMul(FFromInt(i), st)
        x1 == FMul(FFromInt(i + 1), st)
        y0 == FDiv(FFour, FAdd(FOne, FMul(x0, x0)))
        y1 == FDiv(FFour, FAdd(FOne, FMul(x1, x1)))
    IN  FDiv(FMul(FAdd(y0, y1), st), FTwo)

\* the trapezoids of i = k .. end - 1 added to acc in increasing i
RECURSIVE TrapezoidSum(_, _, _)
TrapezoidSum(k, end, acc) ==
    IF k < end
    THEN TrapezoidSum(k + 1, end, FAdd(acc, TrapezoidOf(k, total_intervals)))
    ELSE acc

\* the call of integrate that SpecIntegrate runs
Call == threads[1]

\* the call has returned
CallReturned == pc = "integrate" /\ Call.pc = "done"

\* C13 as stated, for total_intervals = 4: the partial sums over [0,2) and
\* [2,4) are the hand-computed values 313/170 and 129/100 of the trapezoid
\* rule, as doubles.
C13_HandValuesExactly ==
    (CallReturned /\ total_intervals = 4) =>
        /\ (Call.start = 0 /\ Call.end = 2) =>
              results[1] = FDiv(FFromInt(313), FFromInt(170))
        /\ (Call.start = 2 /\ Call.end = 4) =>
              results[1] = FDiv(FFromInt(129), FFromInt(100))

\* C13, amended: integrate returns the sum, in increasing i from start to
\* end - 1 and starting from 0.0, of the trapezoids, each operation rounded
\* to double; 0.0 for an empty range; it changes nothing but its result.
\* For total_intervals = 4 the sums over [0,2) and [2,4) are within 2^-51
\* of the hand-computed 313/170 and 129/100.
C13_IntegrateIsTrapezoidSum ==
    pc = "integrate" =>
        /\ Call.start <= Call.i /\ Call.i <= Call.end
        /\ Call.sum = TrapezoidSum(Call.start, Call.i, FZero)
        /\ out = << >> /\ events = << >> /\ reads = << >> /\ pi = FZero
        /\ Len(threads) = 1 /\ Len(results) = 1
        /\ Call.pc # "done" => results = <<FZero>> /\ writes = << >>
        /\ Call.pc = "done" =>
              /\ Call.i = Call.end
              /\ results[1] = TrapezoidSum(Call.start, Call.end, FZero)
              /\ Call.start = Call.end => results[1] = FZero
              /\ (total_intervals = 4 /\ Call.start = 0 /\ Call.end = 2) =>
                    FCloseToRatio(results[1], 313, 170, 2 - MantBits)
              /\ (total_intervals = 4 /\ Call.start = 2 /\ Call.end = 4) =>
                    FCloseToRatio(results[1], 129, 100, 2 - MantBits)

\* integrate(0, 2, 4) has returned a double that is not the double nearest
\* to 313/170
C13_Witness ==
    /\ CallReturned
    /\ total_intervals = 4
    /\ Call.start = 0 /\ Call.end = 2
    /\ results[1] # FDiv(FFromInt(313), FFromInt(170))

----------------------------------------------------------------------------
\* C14: for every num_threads >= 1, those above total_intervals included,
\* every chunk handed to integrate has 0 <= start <= end <= total_intervals,
\* and the chunks cover [0, total_intervals) without overlap; when
\* num_threads > total_intervals every chunk but the last is [0,0) and the
\* last is [0, total_intervals).
C14_ChunksMeetPrecondition ==
    num_threads >= 1 =>
        /\ \A w \in 1 .. Len(threads) :
              /\ 0 <= threads[w].start
              /\ threads[w].start <= threads[w].end
              /\ threads[w].end <= total_intervals
        /\ \A k \in 0 .. total_intervals - 1 :
              Cardinality({w \in 1 .. Len(threads) : k \in ChunkOf(w)})
                  = (IF AllLaunched THEN 1
                     ELSE IF Len(threads) >= 1 /\ k < threads[Len(threads)].end THEN 1
                     ELSE 0)
        /\ num_threads > total_intervals =>
              \A w \in 1 .. Len(threads) :
                  Chunk(w) = (IF w = num_threads THEN <<0, total_intervals>> ELSE <<0, 0>>)

\* more workers than intervals are launched
C14_Witness ==
    /\ AllLaunched
    /\ num_threads > total_intervals
    /\ total_intervals >= 2
    /\ Len(threads) = num_threads

----------------------------------------------------------------------------
\* the products the launch pass of worker w has evaluated:
\* i * intervals_per_thread, and for every worker but the last
\* (i + 1) * intervals_per_thread
LaunchInts(w) ==
    {(w - 1) * intervals_per_thread}
        \cup (IF w = num_threads THEN {} ELSE {w * intervals_per_thread})

\* the int values the loop of integrate has evaluated in worker w: start,
\* end, every i it has reached, and i + 1 in the passes it has run
LoopInts(w) ==
    {threads[w].start, threads[w].end} \cup (threads[w].start .. threads[w].i)

\* C15: apart from the counter of the launch loop, which stays in
\* [0, num_threads], every int value that calculatePi and integrate evaluate
\* lies in [0, total_intervals], so none leaves the range of int: the products
\* i * intervals_per_thread and (i + 1) * intervals_per_thread are at most
\* total_intervals and every i + 1 of integrate is at most end, which is at
\* most total_intervals.
C15_NoIntOverflow ==
    InRange =>
        /\ intervals_per_thread >= 0
        /\ intervals_per_thread <= total_intervals
        /\ launchPos >= 0 /\ launchPos <= num_threads
        /\ \A w \in 1 .. Len(threads) :
              /\ threads[w].start = (w - 1) * intervals_per_thread
              /\ threads[w].end \in {total_intervals, w * intervals_per_thread}
              /\ threads[w].i <= threads[w].end
              /\ \A v \in LaunchInts(w) \cup LoopInts(w) :
                    v >= 0 /\ v <= total_intervals
              /\ threads[w].i < threads[w].end =>
                    threads[w].i + 1 <= threads[w].end

\* a worker of a run whose division leaves a remainder has run its last
\* pass, the one in which i + 1 is end
C15_Witness ==
    /\ pc \in {"launch", "join"}
    /\ total_intervals % num_threads # 0
    /\ \E w \in 1 .. Len(threads) :
          /\ w = num_threads
          /\ threads[w].i = total_intervals
          /\ threads[w].pc = "loop"

----------------------------------------------------------------------------
\* while calculatePi runs some thread can take a step, and when the main
\* thread waits in a join it is the worker joined that can
C16_NoDeadlock ==
    (Accepted /\ pc # "exit") =>
        /\ MainCanStep \/ \E w \in 1 .. Len(threads) : WorkerCanStep(w)
        /\ ~MainCanStep => WorkerCanStep(joinPos + 1)

\* a worker runs one pass per index of its chunk: it has run i - start of
\* them, and end - start of them when its loop has ended
C16_LoopBound ==
    \A w \in 1 .. Len(threads) :
        /\ threads[w].i - threads[w].start >= 0
        /\ threads[w].i - threads[w].start <= threads[w].end - threads[w].start
        /\ threads[w].pc = "done" =>
              threads[w].i - threads[w].start = threads[w].end - threads[w].start

\* worker w - 1 has been launched
Launched(w) == w <= Len(threads)

\* the join of worker w - 1 has returned
Joined(w) == w <= Len(threads) /\ threads[w].pc = "done" /\ threads[w].joins = 1

\* C16: under fair scheduling every worker's loop ends after end - start
\* passes, every join returns, and calculatePi, once entered with a thread
\* count in [1, 50], returns; no interleaving of launches, worker steps and
\* joins leaves the program stuck.
C16_Termination ==
    /\ [](C16_NoDeadlock /\ C16_LoopBound)
    /\ \A w \in 1 .. MaxThreads : Launched(w) ~> Joined(w)
    /\ (pc = "launch") ~> Returned

\* the main thread waits in the join of worker 0, which is still in its
\* loop, while a worker launched later has finished
C16_Witness ==
    /\ pc = "join"
    /\ joinPos = 0
    /\ threads[1].pc = "loop"
    /\ \E w \in 2 .. Len(threads) : threads[w].pc = "done"

====
